---- MODULE Spec2Model ----
(***************************************************************************)
(* Model of vultex: capability negotiation (vulkan_property_support_info), *)
(* queue-family lookup, device rating and selection, the diagnostics       *)
(* messenger and the start-up / teardown sequence of main.cpp.             *)
(***************************************************************************)
EXTENDS Integers, Sequences, FiniteSets, TLC

\* ------------------------------------------------------------------ bounds
MaxNames == 3
MaxFamilies == 3
MaxFlag == 3
MaxDevices == 4
MaxHostDevices == 2
MaxPolls == 2

\* --------------------------------------------------------------- constants
VK_QUEUE_GRAPHICS_BIT == 1
VK_QUEUE_COMPUTE_BIT == 2 * VK_QUEUE_GRAPHICS_BIT
VK_PHYSICAL_DEVICE_TYPE_INTEGRATED_GPU == "VK_PHYSICAL_DEVICE_TYPE_INTEGRATED_GPU"
VK_PHYSICAL_DEVICE_TYPE_DISCRETE_GPU == "VK_PHYSICAL_DEVICE_TYPE_DISCRETE_GPU"
VK_PHYSICAL_DEVICE_TYPE_CPU == "VK_PHYSICAL_DEVICE_TYPE_CPU"
discrete_gpu_score == 1000
EXIT_SUCCESS == 0
EXIT_FAILURE == 1
VK_NULL_HANDLE == 0
VK_SUCCESS == "VK_SUCCESS"
NoValue == -1
NoStatus == -1

VK_EXT_DEBUG_UTILS_EXTENSION_NAME == "VK_EXT_debug_utils"
required_validation_layer_names == <<"VK_LAYER_KHRONOS_validation">>

VARIABLES
    \* vulkan_property_support_info: one RequiredVulkanProperties check
    availableNames,     \* names the host enumerates (extension or layer properties)
    requestedNames,     \* names handed to the check (count, names)
    required,           \* the RequiredVulkanProperties object built, or NoCheck
    \* device queries
    devices,            \* physical devices the instance enumerates
    indices,            \* QueueFaimilyIndices returned by findQueueFamilies
    score,              \* value returned by rateDeviceSuitability
    candidates,         \* the multimap of pickPhysicalDevice
    \* HelloTrangleApplication and main
    pc,
    enableValidationLayers,
    debugUtilsLoaded,   \* vkGetInstanceProcAddr resolves the debug-utils entry points
    window, instance, debugMessenger, physicalDevice, logicalDevice, graphicsQueue,
    exception,          \* what() of the exception in flight or caught, "" if none
    exitStatus,
    errors,             \* spdlog::error lines
    acquired, released, \* native handles created / destroyed, in call order
    polls

vars == <<availableNames, requestedNames, required, devices, indices, score, candidates,
          pc, enableValidationLayers, debugUtilsLoaded,
          window, instance, debugMessenger, physicalDevice, logicalDevice, graphicsQueue,
          exception, exitStatus, errors, acquired, released, polls>>

supportVars == <<availableNames, requestedNames, required>>
deviceVars == <<devices, indices, score, candidates>>
appVars == <<pc, enableValidationLayers, debugUtilsLoaded,
             window, instance, debugMessenger, physicalDevice, logicalDevice, graphicsQueue,
             exception, exitStatus, errors, acquired, released, polls>>

\* ------------------------------------------------------------------ helpers
Range(s) == {s[i] : i \in 1..Len(s)}

SeqsUpTo(S, n) == UNION {[1..k -> S] : k \in 0..n}

Reverse(s) == [i \in 1..Len(s) |-> s[Len(s) + 1 - i]]

\* ------------------------------------------- vulkan_property_support_info
NoCheck == [property_type_name |-> "", extensions |-> <<>>,
            all_required_extensions_supported |-> TRUE]

EmptySupportMap == [n \in {} |-> 0]

\* std::map<std::string,int>::operator[] : a missing key is inserted with value 0
MapAt(m, k) == IF k \in DOMAIN m THEN m[k] ELSE 0

MapPut(m, k, v) == [n \in DOMAIN m \cup {k} |-> IF n = k THEN v ELSE m[n]]

\* the loop `properties[name] = 1` over the enumerated properties
RECURSIVE BuildSupportMap(_, _)
BuildSupportMap(props, properties) ==
    IF props = <<>> THEN properties
    ELSE BuildSupportMap(Tail(props), MapPut(properties, Head(props), 1))

\* the constructor's loop, from index i on
RECURSIVE ClaimNames(_, _, _, _)
ClaimNames(self, i, count, names) ==
    IF ~(i < count) THEN self
    ELSE LET name == names[i + 1]
             decremented == MapAt(self.extensions, name) - 1
             claimed == [self EXCEPT !.extensions = MapPut(self.extensions, name, decremented)]
         IN  ClaimNames(IF -1 = decremented
                        THEN [claimed EXCEPT !.all_required_extensions_supported = FALSE]
                        ELSE claimed,
                        i + 1, count, names)

RequiredVulkanProperties(name, supported_extensions, count, names) ==
    ClaimNames([property_type_name |-> name, extensions |-> supported_extensions,
                all_required_extensions_supported |-> TRUE],
               0, count, names)

all_supported(self) == self.all_required_extensions_supported

check_glfw_required_extensions(extension_properties, count, names) ==
    RequiredVulkanProperties("Extensions",
                             BuildSupportMap(extension_properties, EmptySupportMap),
                             count, names)

check_required_validation_layers(availableLayers, count, names) ==
    RequiredVulkanProperties("Layers",
                             BuildSupportMap(availableLayers, EmptySupportMap),
                             count, names)

\* ------------------------------------------------ unsigned 32-bit arithmetic
\* A uint32_t is kept as two 16-bit halves, value = hi * 2^16 + lo.
Half == 2^16

U32(hi, lo) == [hi |-> hi, lo |-> lo]

\* conversion int -> unsigned int (modulo 2^32)
ToUint32(i) == [hi |-> (i \div Half) % Half, lo |-> i % Half]

\* conversion unsigned int -> int (modulo 2^32, two's complement)
ToInt32(u) == IF u.hi >= Half \div 2 THEN (u.hi - Half) * Half + u.lo
              ELSE u.hi * Half + u.lo

\* unsigned addition, wrapping at 2^32
U32Add(a, b) == [hi |-> (a.hi + b.hi + (a.lo + b.lo) \div Half) % Half,
                 lo |-> (a.lo + b.lo) % Half]

U32Leq(a, b) == a.hi < b.hi \/ (a.hi = b.hi /\ a.lo <= b.lo)

\* ------------------------------------------------------- findQueueFamilies
\* variant: the flags compared for equality with the mask instead of masked
FlagSetExactly(queueFlags, bit) == queueFlags = bit

\* queueFlags & bit, for a single-bit mask
FlagSet(queueFlags, bit) == (queueFlags \div bit) % 2 = 1

\* std::ranges::find_if: offset of the first family with the graphics bit,
\* Len(queueFamilies) standing for end()
RECURSIVE FindGraphicsFamily(_, _)
FindGraphicsFamily(queueFamilies, i) ==
    IF i = Len(queueFamilies) THEN i
    ELSE IF FlagSet(queueFamilies[i + 1], VK_QUEUE_GRAPHICS_BIT) THEN i
    ELSE FindGraphicsFamily(queueFamilies, i + 1)

findQueueFamilies(device) ==
    LET it == FindGraphicsFamily(device.queueFamilies, 0)
    IN  IF it # Len(device.queueFamilies)
        THEN [graphicsFamily |-> it]
        ELSE [graphicsFamily |-> NoValue]

isComplete(queueFamilyIndices) == queueFamilyIndices.graphicsFamily # NoValue

\* --------------------------------------------------- rateDeviceSuitability
\* variant: the queue-family requirement left out
rateWithoutQueueCheck(device) ==
    IF ~device.geometryShader THEN 0
    ELSE LET bonus == IF device.deviceType = VK_PHYSICAL_DEVICE_TYPE_DISCRETE_GPU
                      THEN 0 + discrete_gpu_score
                      ELSE 0
         IN  ToInt32(U32Add(ToUint32(bonus), device.maxImageDimension2D))

rateDeviceSuitability(device) ==
    IF ~device.geometryShader THEN 0
    ELSE IF ~isComplete(findQueueFamilies(device)) THEN 0
    ELSE LET bonus == IF device.deviceType = VK_PHYSICAL_DEVICE_TYPE_DISCRETE_GPU
                      THEN 0 + discrete_gpu_score
                      ELSE 0
         IN  ToInt32(U32Add(ToUint32(bonus), device.maxImageDimension2D))

\* ------------------------------------------------------ pickPhysicalDevice
\* std::multimap<int, VkPhysicalDevice> as the sequence of its pairs in
\* iteration order (non-decreasing key).
KeysBelow(map, key) == Cardinality({j \in 1..Len(map) : map[j][1] < key})
KeysUpTo(map, key) == Cardinality({j \in 1..Len(map) : map[j][1] <= key})

InsertAt(map, p, pair) ==
    [j \in 1..(Len(map) + 1) |-> IF j < p THEN map[j]
                                 ELSE IF j = p THEN pair
                                 ELSE map[j - 1]]

\* multimap::insert(hint, pair): the pair goes as close as possible to the
\* position just before hint, among the positions that keep the keys ordered
HintPosition(map, hint, key) ==
    LET lower == KeysBelow(map, key) + 1
        upper == KeysUpTo(map, key) + 1
    IN  IF hint < lower THEN lower ELSE IF hint > upper THEN upper ELSE hint

\* std::transform into std::inserter(candidates, candidates.begin()): the
\* insert_iterator inserts at its iterator, then steps past the new element
RECURSIVE InsertCandidates(_, _, _, _)
InsertCandidates(devs, i, map, iter) ==
    IF i > Len(devs) THEN map
    ELSE LET key == rateDeviceSuitability(devs[i])
             p == HintPosition(map, iter, key)
         IN  InsertCandidates(devs, i + 1, InsertAt(map, p, <<key, i>>), p + 1)

\* variant: the first element of the multimap taken instead of the last
beginOf(map) == map[1]

\* candidates.rbegin()
rbegin(map) == map[Len(map)]

\* A device handle is the device's position in the enumeration.
pickPhysicalDevice(devs) ==
    LET deviceCount == Len(devs)
        ranked == InsertCandidates(devs, 1, <<>>, 1)
    IN  IF 0 = deviceCount
        THEN [what |-> "failed to find GPUs with Vulkan support!",
              candidates |-> <<>>, physicalDevice |-> VK_NULL_HANDLE]
        ELSE IF ranked = <<>>
        THEN [what |-> "failed to find a suitable GPU!",
              candidates |-> ranked, physicalDevice |-> VK_NULL_HANDLE]
        ELSE [what |-> "", candidates |-> ranked, physicalDevice |-> rbegin(ranked)[2]]

\* ---- specification of one support check on arbitrary name lists
CapabilityNames == {"VK_KHR_surface", "VK_EXT_debug_utils", "VK_LAYER_KHRONOS_validation"}

IdleDevice ==
    /\ devices = <<>>
    /\ indices = [graphicsFamily |-> NoValue]
    /\ score = 0
    /\ candidates = <<>>

IdleSupport ==
    /\ availableNames = <<>>
    /\ requestedNames = <<>>
    /\ required = NoCheck

IdleApp ==
    /\ pc = "idle"
    /\ enableValidationLayers = FALSE
    /\ debugUtilsLoaded = FALSE
    /\ window = VK_NULL_HANDLE
    /\ instance = VK_NULL_HANDLE
    /\ debugMessenger = VK_NULL_HANDLE
    /\ physicalDevice = VK_NULL_HANDLE
    /\ logicalDevice = VK_NULL_HANDLE
    /\ graphicsQueue = VK_NULL_HANDLE
    /\ exception = ""
    /\ exitStatus = NoStatus
    /\ errors = <<>>
    /\ acquired = <<>>
    /\ released = <<>>
    /\ polls = 0

InitSupport ==
    /\ availableNames \in SeqsUpTo(CapabilityNames, MaxNames)
    /\ requestedNames \in SeqsUpTo(CapabilityNames, MaxNames)
    /\ required = NoCheck
    /\ IdleDevice
    /\ IdleApp

CheckGlfwRequiredExtensions ==
    /\ required = NoCheck
    /\ required' = check_glfw_required_extensions(availableNames, Len(requestedNames),
                                                  requestedNames)
    /\ UNCHANGED <<availableNames, requestedNames, deviceVars, appVars>>

CheckRequiredValidationLayers ==
    /\ required = NoCheck
    /\ required' = check_required_validation_layers(availableNames, Len(requestedNames),
                                                    requestedNames)
    /\ UNCHANGED <<availableNames, requestedNames, deviceVars, appVars>>

NextSupport == CheckGlfwRequiredExtensions \/ CheckRequiredValidationLayers

SpecSupport == InitSupport /\ [][NextSupport]_vars

\* C1: after a support check of the requested list R against the available
\* list A, all_supported() is true exactly when every name of R occurs in A
\* (R and A compared as sets, duplicates ignored).
C1_AllSupportedIffSubset ==
    required # NoCheck =>
        (all_supported(required) <=> Range(requestedNames) \subseteq Range(availableNames))

\* ---- specification of the queries on one physical device
\* INT32_MAX, written so that no intermediate value leaves the 32-bit range
MaxInt32 == (2^30 - 1) * 2 + 1

\* maxImageDimension2D values: small ones, and the ones around 2^31 and 2^32
ImageDimensions ==
    {U32(0, 0), U32(0, 250), U32(0, 4096), U32(0, 16384),
     U32(32767, 64536), U32(32767, 65535), U32(32768, 0),
     U32(65535, 64536), U32(65535, 65535)}

RateDevices ==
    [geometryShader : BOOLEAN,
     deviceType : {VK_PHYSICAL_DEVICE_TYPE_INTEGRATED_GPU,
                   VK_PHYSICAL_DEVICE_TYPE_DISCRETE_GPU,
                   VK_PHYSICAL_DEVICE_TYPE_CPU},
     maxImageDimension2D : ImageDimensions,
     queueFamilies : SeqsUpTo(0..MaxFlag, MaxFamilies)]

InitRate ==
    /\ IdleSupport
    /\ IdleApp
    /\ devices \in {<<d>> : d \in RateDevices}
    /\ indices = [graphicsFamily |-> NoValue]
    /\ score = 0
    /\ candidates = <<>>

FindQueueFamilies ==
    /\ pc = "idle"
    /\ indices' = findQueueFamilies(devices[1])
    /\ pc' = "found"
    /\ UNCHANGED <<supportVars, devices, score, candidates, enableValidationLayers,
                   debugUtilsLoaded, window, instance, debugMessenger, physicalDevice,
                   logicalDevice, graphicsQueue, exception, exitStatus, errors,
                   acquired, released, polls>>

RateDeviceSuitability ==
    /\ pc = "idle"
    /\ score' = rateDeviceSuitability(devices[1])
    /\ pc' = "rated"
    /\ UNCHANGED <<supportVars, devices, indices, candidates, enableValidationLayers,
                   debugUtilsLoaded, window, instance, debugMessenger, physicalDevice,
                   logicalDevice, graphicsQueue, exception, exitStatus, errors,
                   acquired, released, polls>>

NextRate == FindQueueFamilies \/ RateDeviceSuitability

SpecRate == InitRate /\ [][NextRate]_vars

GraphicsFamilies(device) ==
    {i \in 0..(Len(device.queueFamilies) - 1) :
        (device.queueFamilies[i + 1] \div VK_QUEUE_GRAPHICS_BIT) % 2 = 1}

\* C4: a device without the geometry-shader feature, or without any
\* graphics-capable queue family, is rated exactly 0 whatever its type and
\* maxImageDimension2D.
C4_HardRequirementsRateZero ==
    (pc = "rated" /\ (~devices[1].geometryShader \/ GraphicsFamilies(devices[1]) = {}))
        => score = 0

C4_Witness ==
    /\ pc = "rated"
    /\ devices[1].geometryShader
    /\ GraphicsFamilies(devices[1]) = {}
    /\ Len(devices[1].queueFamilies) >= 2
    /\ devices[1].deviceType = VK_PHYSICAL_DEVICE_TYPE_DISCRETE_GPU
    /\ devices[1].maxImageDimension2D = U32(0, 4096)
    /\ score = 0

\* C5: for a device meeting both hard requirements the score does not
\* decrease when maxImageDimension2D grows (device type fixed, whole uint32
\* range), and a discrete device scores exactly 1000 more than a
\* non-discrete one with the same maxImageDimension2D.
C5_MonotonicAndDiscreteBonus ==
    (pc = "rated" /\ devices[1].geometryShader /\ GraphicsFamilies(devices[1]) # {})
        => /\ \A larger \in ImageDimensions :
                U32Leq(devices[1].maxImageDimension2D, larger)
                    => score <= rateDeviceSuitability(
                                    [devices[1] EXCEPT !.maxImageDimension2D = larger])
           /\ LET discrete == rateDeviceSuitability(
                      [devices[1] EXCEPT !.deviceType = VK_PHYSICAL_DEVICE_TYPE_DISCRETE_GPU])
                  other == rateDeviceSuitability(
                      [devices[1] EXCEPT !.deviceType = VK_PHYSICAL_DEVICE_TYPE_INTEGRATED_GPU])
              IN  other <= MaxInt32 - discrete_gpu_score /\ discrete = other + discrete_gpu_score

\* C6: findQueueFamilies returns an empty graphicsFamily exactly when no
\* family has the graphics bit, and otherwise the lowest index of a family
\* with the graphics bit, other bits and later qualifying families
\* notwithstanding.
C6_FirstGraphicsFamily ==
    pc = "found" =>
        /\ indices.graphicsFamily = NoValue <=> GraphicsFamilies(devices[1]) = {}
        /\ indices.graphicsFamily # NoValue =>
              /\ indices.graphicsFamily \in GraphicsFamilies(devices[1])
              /\ \A i \in GraphicsFamilies(devices[1]) : indices.graphicsFamily <= i

C6_Witness ==
    /\ pc = "found"
    /\ Cardinality(GraphicsFamilies(devices[1])) >= 2
    /\ indices.graphicsFamily = 1
    /\ devices[1].queueFamilies[2] = VK_QUEUE_GRAPHICS_BIT + VK_QUEUE_COMPUTE_BIT

\* ---- specification of device selection over an enumeration
\* devices missing at most one of the two hard requirements
SelectDevices ==
    {d \in [geometryShader : BOOLEAN,
            deviceType : {VK_PHYSICAL_DEVICE_TYPE_INTEGRATED_GPU,
                          VK_PHYSICAL_DEVICE_TYPE_DISCRETE_GPU},
            maxImageDimension2D : {U32(0, 250), U32(0, 300)},
            queueFamilies : {<<VK_QUEUE_COMPUTE_BIT>>, <<VK_QUEUE_GRAPHICS_BIT>>}] :
        d.geometryShader \/ d.queueFamilies = <<VK_QUEUE_GRAPHICS_BIT>>}

InitSelect ==
    /\ IdleSupport
    /\ IdleApp
    /\ devices \in SeqsUpTo(SelectDevices, MaxDevices)
    /\ indices = [graphicsFamily |-> NoValue]
    /\ score = 0
    /\ candidates = <<>>

SelectPhysicalDevice ==
    /\ pc = "idle"
    /\ LET picked == pickPhysicalDevice(devices)
       IN  /\ candidates' = picked.candidates
           /\ physicalDevice' = picked.physicalDevice
           /\ exception' = picked.what
           /\ pc' = IF picked.what = "" THEN "selected" ELSE "select failed"
    /\ UNCHANGED <<supportVars, devices, indices, score, enableValidationLayers,
                   debugUtilsLoaded, window, instance, debugMessenger,
                   logicalDevice, graphicsQueue, exitStatus, errors,
                   acquired, released, polls>>

NextSelect == SelectPhysicalDevice

SpecSelect == InitSelect /\ [][NextSelect]_vars

Scores(devs) == [i \in 1..Len(devs) |-> rateDeviceSuitability(devs[i])]

\* C2: device selection fails with an error and returns no device both when
\* no device is enumerated and when every enumerated device is rated 0.
C2_SelectFailsWithoutSuitableDevice ==
    (pc \in {"selected", "select failed"} /\ \A i \in 1..Len(devices) : Scores(devices)[i] = 0)
        => (pc = "select failed" /\ exception # "" /\ physicalDevice = VK_NULL_HANDLE)

\* C3: whenever device selection returns a device, no enumerated device is
\* rated higher than the returned one.
C3_SelectedHasMaximalScore ==
    (pc = "selected" /\ physicalDevice # VK_NULL_HANDLE)
        => \A j \in 1..Len(devices) :
               Scores(devices)[physicalDevice] >= Scores(devices)[j]

C3_Witness ==
    /\ pc = "selected"
    /\ Scores(devices) = <<0, 250, 1300, 0>>
    /\ physicalDevice = 3

\* ------------------------------------------------------------ createInstance
getRequiredExtensions(glfwExtensions) ==
    IF enableValidationLayers
    THEN Append(glfwExtensions, VK_EXT_DEBUG_UTILS_EXTENSION_NAME)
    ELSE glfwExtensions

\* variant: the instance is created before the support checks are evaluated
createInstanceThenCheck(glfwExtensions, extension_properties, availableLayers, create_instance_status) ==
    LET extensions == getRequiredExtensions(glfwExtensions)
        glfw_required_extensions ==
            check_glfw_required_extensions(extension_properties, Len(extensions), extensions)
        required_validation_layers ==
            check_required_validation_layers(availableLayers,
                                             Len(required_validation_layer_names),
                                             required_validation_layer_names)
    IN  IF VK_SUCCESS # create_instance_status
        THEN [what |-> "Cannot create vulkan instance: status", created |-> FALSE]
        ELSE IF ~all_supported(glfw_required_extensions)
        THEN [what |-> "Cannot create vulkan instance! glfw all supported: false",
              created |-> TRUE]
        ELSE IF enableValidationLayers /\ ~all_supported(required_validation_layers)
        THEN [what |-> "validation layers requested, but not available!", created |-> TRUE]
        ELSE [what |-> "", created |-> TRUE]

\* getRequiredByGlfwVulkanExtensions, configureValidationLayers, vkCreateInstance
createInstance(glfwExtensions, extension_properties, availableLayers, create_instance_status) ==
    LET extensions == getRequiredExtensions(glfwExtensions)
        glfw_required_extensions ==
            check_glfw_required_extensions(extension_properties, Len(extensions), extensions)
        required_validation_layers ==
            check_required_validation_layers(availableLayers,
                                             Len(required_validation_layer_names),
                                             required_validation_layer_names)
    IN  IF ~all_supported(glfw_required_extensions)
        THEN [what |-> "Cannot create vulkan instance! glfw all supported: false",
              created |-> FALSE]
        ELSE IF enableValidationLayers /\ ~all_supported(required_validation_layers)
        THEN [what |-> "validation layers requested, but not available!", created |-> FALSE]
        ELSE IF VK_SUCCESS # create_instance_status
        THEN [what |-> "Cannot create vulkan instance: status", created |-> FALSE]
        ELSE [what |-> "", created |-> TRUE]

\* ------------------------------------------------------- setupDebugMessenger
\* vulkan_debug.cpp: the entry point is looked up; a missing one is logged and
\* reported as VK_ERROR_EXTENSION_NOT_PRESENT, else the entry point's result
CreateDebugUtilsMessengerEXT(func, result) ==
    IF ~func
    THEN [status |-> "VK_ERROR_EXTENSION_NOT_PRESENT",
          logged |-> <<"Couldn't find vkCreateDebugUtilsMessengerEXT">>]
    ELSE [status |-> result, logged |-> <<>>]

\* variant: a missing entry point is logged and start-up goes on without messenger
setupDebugMessengerSoftly(func, result) ==
    LET call == CreateDebugUtilsMessengerEXT(func, result)
    IN  IF ~enableValidationLayers
        THEN [what |-> "", created |-> FALSE, logged |-> <<>>]
        ELSE IF ~func
        THEN [what |-> "", created |-> FALSE, logged |-> call.logged]
        ELSE IF VK_SUCCESS # call.status
        THEN [what |-> "failed to set up debug messenger!", created |-> FALSE,
              logged |-> call.logged]
        ELSE [what |-> "", created |-> TRUE, logged |-> call.logged]

setupDebugMessenger(func, result) ==
    LET call == CreateDebugUtilsMessengerEXT(func, result)
    IN  IF ~enableValidationLayers
        THEN [what |-> "", created |-> FALSE, logged |-> <<>>]
        ELSE IF VK_SUCCESS # call.status
        THEN [what |-> "failed to set up debug messenger!", created |-> FALSE,
              logged |-> call.logged]
        ELSE [what |-> "", created |-> TRUE, logged |-> call.logged]

\* ------------------------------------------------------- createLogicalDevice
\* std::optional::value() on an empty optional throws std::bad_optional_access
createLogicalDevice(device, create_device_status) ==
    IF ~isComplete(findQueueFamilies(device))
    THEN [what |-> "bad optional access", created |-> FALSE]
    ELSE IF VK_SUCCESS # create_device_status
    THEN [what |-> "Failed to create logical device!", created |-> FALSE]
    ELSE [what |-> "", created |-> TRUE]

\* ---------------------------------------- ~HelloTrangleApplication, releases
\* variant: the instance destroyed first
destroyInstanceFirst ==
    <<"instance", "logicalDevice">>
        \o (IF enableValidationLayers /\ debugUtilsLoaded THEN <<"debugMessenger">> ELSE <<>>)
        \o <<"window">>

\* vkDestroyDevice, DestroyDebugUtilsMessengerEXT, vkDestroyInstance, glfwDestroyWindow
destroyed ==
    <<"logicalDevice">>
        \o (IF enableValidationLayers /\ debugUtilsLoaded THEN <<"debugMessenger">> ELSE <<>>)
        \o <<"instance", "window">>

\* ---- specification of the program: main, constructor, run, destructor
GlfwExtensionNames == {"VK_KHR_surface", "VK_KHR_xcb_surface"}
HostExtensionNames == GlfwExtensionNames \cup {VK_EXT_DEBUG_UTILS_EXTENSION_NAME}
HostLayerNames == {"VK_LAYER_KHRONOS_validation"}

NewHandle == Len(acquired) + 1

Init ==
    /\ IdleSupport
    /\ IdleDevice
    /\ pc = "main"
    /\ enableValidationLayers \in BOOLEAN
    /\ debugUtilsLoaded \in BOOLEAN
    /\ window = VK_NULL_HANDLE
    /\ instance = VK_NULL_HANDLE
    /\ debugMessenger = VK_NULL_HANDLE
    /\ physicalDevice = VK_NULL_HANDLE
    /\ logicalDevice = VK_NULL_HANDLE
    /\ graphicsQueue = VK_NULL_HANDLE
    /\ exception = ""
    /\ exitStatus = NoStatus
    /\ errors = <<>>
    /\ acquired = <<>>
    /\ released = <<>>
    /\ polls = 0

InitWindow ==
    /\ pc = "main"
    /\ window' = NewHandle
    /\ acquired' = Append(acquired, "window")
    /\ pc' = "createInstance"
    /\ UNCHANGED <<supportVars, deviceVars, enableValidationLayers, debugUtilsLoaded,
                   instance, debugMessenger, physicalDevice, logicalDevice, graphicsQueue,
                   exception, exitStatus, errors, released, polls>>

CreateInstance ==
    /\ pc = "createInstance"
    /\ \E glfwExtensions \in SeqsUpTo(GlfwExtensionNames, MaxNames),
          extension_properties \in SeqsUpTo(HostExtensionNames, MaxNames),
          availableLayers \in SeqsUpTo(HostLayerNames, MaxNames),
          create_instance_status \in {VK_SUCCESS, "VK_ERROR_INCOMPATIBLE_DRIVER"} :
          LET made == createInstance(glfwExtensions, extension_properties,
                                     availableLayers, create_instance_status)
          IN  /\ exception' = made.what
              /\ instance' = IF made.created THEN NewHandle ELSE instance
              /\ acquired' = IF made.created THEN Append(acquired, "instance") ELSE acquired
              /\ pc' = IF made.what = "" THEN "setupDebugMessenger" ELSE "catch"
    /\ UNCHANGED <<supportVars, deviceVars, enableValidationLayers, debugUtilsLoaded,
                   window, debugMessenger, physicalDevice, logicalDevice, graphicsQueue,
                   exitStatus, errors, released, polls>>

SetupDebugMessenger ==
    /\ pc = "setupDebugMessenger"
    /\ \E result \in {VK_SUCCESS, "VK_ERROR_OUT_OF_HOST_MEMORY"} :
          LET made == setupDebugMessenger(debugUtilsLoaded, result)
          IN  /\ exception' = made.what
              /\ errors' = errors \o made.logged
              /\ debugMessenger' = IF made.created THEN NewHandle ELSE VK_NULL_HANDLE
              /\ acquired' = IF made.created THEN Append(acquired, "debugMessenger")
                             ELSE acquired
              /\ pc' = IF made.what = "" THEN "pickPhysicalDevice" ELSE "catch"
    /\ UNCHANGED <<supportVars, deviceVars, enableValidationLayers, debugUtilsLoaded,
                   window, instance, physicalDevice, logicalDevice, graphicsQueue,
                   exitStatus, released, polls>>

PickPhysicalDevice ==
    /\ pc = "pickPhysicalDevice"
    /\ \E enumerated \in SeqsUpTo(SelectDevices, MaxHostDevices) :
          LET picked == pickPhysicalDevice(enumerated)
          IN  /\ devices' = enumerated
              /\ candidates' = picked.candidates
              /\ physicalDevice' = picked.physicalDevice
              /\ exception' = picked.what
              /\ pc' = IF picked.what = "" THEN "createLogicalDevice" ELSE "catch"
    /\ UNCHANGED <<supportVars, indices, score, enableValidationLayers, debugUtilsLoaded,
                   window, instance, debugMessenger, logicalDevice, graphicsQueue,
                   exitStatus, errors, acquired, released, polls>>

CreateLogicalDevice ==
    /\ pc = "createLogicalDevice"
    /\ \E create_device_status \in {VK_SUCCESS, "VK_ERROR_INITIALIZATION_FAILED"} :
          LET made == createLogicalDevice(devices[physicalDevice], create_device_status)
          IN  /\ indices' = findQueueFamilies(devices[physicalDevice])
              /\ exception' = made.what
              /\ logicalDevice' = IF made.created THEN NewHandle ELSE logicalDevice
              /\ acquired' = IF made.created THEN Append(acquired, "logicalDevice")
                             ELSE acquired
              /\ pc' = IF made.what = "" THEN "constructor" ELSE "catch"
    /\ UNCHANGED <<supportVars, devices, score, candidates, enableValidationLayers,
                   debugUtilsLoaded, window, instance, debugMessenger, physicalDevice,
                   graphicsQueue, exitStatus, errors, released, polls>>

\* the constructor's body: vkGetDeviceQueue on the graphics family, queue 0
ConstructorBody ==
    /\ pc = "constructor"
    /\ LET found == findQueueFamilies(devices[physicalDevice])
       IN  /\ indices' = found
           /\ IF isComplete(found)
              THEN /\ graphicsQueue' = found.graphicsFamily + 1
                   /\ pc' = "run"
                   /\ UNCHANGED exception
              ELSE /\ exception' = "bad optional access"
                   /\ pc' = "catch"
                   /\ UNCHANGED graphicsQueue
    /\ UNCHANGED <<supportVars, devices, score, candidates, enableValidationLayers,
                   debugUtilsLoaded, window, instance, debugMessenger, physicalDevice,
                   logicalDevice, exitStatus, errors, acquired, released, polls>>

\* run(): poll events until the window should close, then the temporary dies
Run ==
    /\ pc = "run"
    /\ \/ /\ polls < MaxPolls
          /\ polls' = polls + 1
          /\ UNCHANGED pc
       \/ /\ pc' = "destructor"
          /\ UNCHANGED polls
    /\ UNCHANGED <<supportVars, deviceVars, enableValidationLayers, debugUtilsLoaded,
                   window, instance, debugMessenger, physicalDevice, logicalDevice,
                   graphicsQueue, exception, exitStatus, errors, acquired, released>>

Destructor ==
    /\ pc = "destructor"
    /\ released' = released \o destroyed
    /\ errors' = IF enableValidationLayers /\ ~debugUtilsLoaded
                 THEN Append(errors, "Couldn't find vkDestroyDebugUtilsMessengerEXT")
                 ELSE errors
    /\ pc' = "return"
    /\ UNCHANGED <<supportVars, deviceVars, enableValidationLayers, debugUtilsLoaded,
                   window, instance, debugMessenger, physicalDevice, logicalDevice,
                   graphicsQueue, exception, exitStatus, acquired, polls>>

MainReturn ==
    /\ pc = "return"
    /\ exitStatus' = EXIT_SUCCESS
    /\ pc' = "exit"
    /\ UNCHANGED <<supportVars, deviceVars, enableValidationLayers, debugUtilsLoaded,
                   window, instance, debugMessenger, physicalDevice, logicalDevice,
                   graphicsQueue, exception, errors, acquired, released, polls>>

MainCatch ==
    /\ pc = "catch"
    /\ errors' = Append(errors, exception)
    /\ exitStatus' = EXIT_FAILURE
    /\ pc' = "exit"
    /\ UNCHANGED <<supportVars, deviceVars, enableValidationLayers, debugUtilsLoaded,
                   window, instance, debugMessenger, physicalDevice, logicalDevice,
                   graphicsQueue, exception, acquired, released, polls>>

Next ==
    \/ InitWindow
    \/ CreateInstance
    \/ SetupDebugMessenger
    \/ PickPhysicalDevice
    \/ CreateLogicalDevice
    \/ ConstructorBody
    \/ Run
    \/ Destructor
    \/ MainReturn
    \/ MainCatch

Spec == Init /\ [][Next]_vars

\* the messenger set-up step has been executed with diagnostics enabled and
\* the vkCreateDebugUtilsMessengerEXT entry point missing
MessengerEntryPointMissing ==
    /\ enableValidationLayers
    /\ ~debugUtilsLoaded
    /\ instance # VK_NULL_HANDLE
    /\ pc # "setupDebugMessenger"

AbsenceLogged == \E i \in 1..Len(errors) : errors[i] = "Couldn't find vkCreateDebugUtilsMessengerEXT"

\* C7 as stated: with diagnostics enabled and the entry point missing, the
\* absence is logged and start-up goes on without diagnostics instead of
\* aborting.
C7_MissingEntryPointFailsSoftly ==
    MessengerEntryPointMissing =>
        /\ AbsenceLogged
        /\ exception = ""
        /\ pc \notin {"catch", "exit"} \/ exitStatus = EXIT_SUCCESS

\* C7 amended: with diagnostics enabled and the entry point missing, the
\* absence is logged and start-up is aborted with the exception "failed to
\* set up debug messenger!": no physical device is selected, no logical
\* device is created, and the program exits with EXIT_FAILURE.
C7_MissingEntryPointAborts ==
    MessengerEntryPointMissing =>
        /\ AbsenceLogged
        /\ exception = "failed to set up debug messenger!"
        /\ pc \in {"catch", "exit"}
        /\ debugMessenger = VK_NULL_HANDLE
        /\ physicalDevice = VK_NULL_HANDLE
        /\ logicalDevice = VK_NULL_HANDLE
        /\ pc = "exit" => exitStatus = EXIT_FAILURE

C7_Witness ==
    /\ MessengerEntryPointMissing
    /\ pc = "exit"
    /\ exitStatus = EXIT_FAILURE
    /\ AbsenceLogged

\* C8: when the program has ended, every handle acquired during start-up
\* has been released, on the failing paths too.
C8_EveryHandleReleased ==
    pc = "exit" => Range(acquired) \subseteq Range(released)

Position(s, e) == CHOOSE i \in 1..Len(s) : s[i] = e

\* C9: once teardown has run after a successful start-up, the handles were
\* released in the reverse order of their acquisition, so the diagnostics
\* messenger and the logical device are released before the instance.
C9_ReleasedInReverseOrder ==
    pc \in {"return", "exit"} /\ exception = "" =>
        /\ released = Reverse(acquired)
        /\ \A child \in Range(released) \cap {"debugMessenger", "logicalDevice"} :
               Position(released, child) < Position(released, "instance")

C9_Witness ==
    /\ pc = "exit"
    /\ acquired = <<"window", "instance", "debugMessenger", "logicalDevice">>
    /\ released = <<"logicalDevice", "debugMessenger", "instance", "window">>

\* handles that exist when the step raising the exception is reached
AcquiredBefore(what) ==
    IF what \in {"Cannot create vulkan instance! glfw all supported: false",
                 "validation layers requested, but not available!",
                 "Cannot create vulkan instance: status"}
    THEN {"window"}
    ELSE IF what = "failed to set up debug messenger!"
    THEN {"window", "instance"}
    ELSE {"window", "instance", "debugMessenger"}

C11_SelectedDeviceHasGraphicsFamily ==
    /\ pc \in {"createLogicalDevice", "constructor"}
          => GraphicsFamilies(devices[physicalDevice]) # {}
    /\ exception # "bad optional access"

====
